---- MODULE Spec2Model ----
(***************************************************************************)
(* Model of amira_blender_rendering's RenderManager                        *)
(* (src/src/amira_blender_rendering/scenes/rendermanager.py): the          *)
(* per-frame postprocessing pipeline (depth, disparity, per-object render  *)
(* results in OpenGL and OpenCV convention, annotation files) and the      *)
(* bounding-box functions it is built on.                                  *)
(*                                                                         *)
(* Conventions of the model                                                *)
(*   - Python None for array-valued fields is the empty sequence.          *)
(*   - Vectors are 3-tuples of integers (blender units); matrices are      *)
(*     3-tuples of rows.  World matrices are records [R, t].               *)
(*   - Strings that are searched for substrings are sequences of           *)
(*     characters.                                                         *)
(*   - Paths are sequences of path components.                             *)
(*   - A call that raises yields a record whose err field is the name of   *)
(*     the Python exception; err = "none" means the call returned.         *)
(***************************************************************************)
EXTENDS Integers, Sequences, FiniteSets, TLC

VARIABLES
    pc,               \* position of postprocess: see the actions below
    err,              \* exception propagated out of postprocess, or "none"
    cfg,              \* postprocess_config
    unit_conversion,  \* RenderManager.unit_conversion ("None" or "bu_to_mm")
    camera,           \* active camera: [name, matrix_world]
    objs,             \* the list of object dictionaries passed to postprocess
    objs0,            \* the same list as it was when postprocess was called
    dirs,             \* directories that exist in the output tree
    dirs0,            \* directories that existed when postprocess was called
    files,            \* files written by postprocess: path :> content
    maskfiles,        \* mask images on disk: file name :> image
    i,                \* index of the next object of the loop (1-based)
    results_gl,       \* ResultsCollection, OpenGL convention
    results_cv,       \* ResultsCollection, OpenCV convention
    render_result,    \* the loop's locals render_result_gl/_cv: <<>> while unbound, else <<gl, cv>>
    trace,            \* the calls made so far, in order
    bb_obj,           \* argument of a stand-alone compute_3dbbox call
    bb_ret,           \* outcome of that call
    gen               \* locals of generate_dataset (scripts/render_tool_cap.py)

vars == <<pc, err, cfg, unit_conversion, camera, objs, objs0, dirs, dirs0, files,
          maskfiles, i, results_gl, results_cv, render_result, trace, bb_obj, bb_ret, gen>>

None == << >>

(***************************************************************************)
(* Bounds of the model.                                                    *)
(***************************************************************************)
MaxObjs == 2       \* longest object list passed to postprocess
MaxCorners == 9    \* longest bound_box handed to compute_3dbbox

(***************************************************************************)
(* Linear algebra on integer vectors and matrices.                         *)
(***************************************************************************)
VAdd(a, b) == <<a[1] + b[1], a[2] + b[2], a[3] + b[3]>>
VSub(a, b) == <<a[1] - b[1], a[2] - b[2], a[3] - b[3]>>
\* v / 2.0; the model's coordinates are even, so the division is exact
VHalf(v) == <<v[1] \div 2, v[2] \div 2, v[3] \div 2>>
Dot(a, b) == a[1] * b[1] + a[2] * b[2] + a[3] * b[3]
Col(M, j) == <<M[1][j], M[2][j], M[3][j]>>
MatVec(M, v) == <<Dot(M[1], v), Dot(M[2], v), Dot(M[3], v)>>
MatMul(A, B) == [r \in 1..3 |-> [c \in 1..3 |-> Dot(A[r], Col(B, c))]]
Transpose(M) == [r \in 1..3 |-> Col(M, r)]
Identity3 == <<<<1, 0, 0>>, <<0, 1, 0>>, <<0, 0, 1>>>>
\* obj.matrix_world @ v
Apply(mw, v) == VAdd(MatVec(mw.R, v), mw.t)

(***************************************************************************)
(* amira_blender_rendering.math.geometry and .math.conversions: used by    *)
(* the render manager, modelled from their description in the              *)
(* specification (sections 4.1 and 4.4).                                   *)
(***************************************************************************)
\* rotation about x by q quarter turns; euler_x_to_matrix(np.pi) is q = 2
euler_x_to_matrix(q) ==
    LET c == <<1, 0, -1, 0>>[(q % 4) + 1]
        s == <<0, 1, 0, -1>>[(q % 4) + 1]
    IN  <<<<1, 0, 0>>, <<0, c, -s>>, <<0, s, c>>>>
Pi == 2

\* object's translation expressed in the camera's local frame
get_relative_translation(bpyobj, cam) ==
    MatVec(Transpose(cam.matrix_world.R), VSub(bpyobj.matrix_world.t, cam.matrix_world.t))

\* object's rotation relative to the camera, compensated by the zeroing rotation
get_relative_rotation_to_cam_deg(bpyobj, cam, zeroing) ==
    MatMul(Transpose(zeroing), MatMul(Transpose(cam.matrix_world.R), bpyobj.matrix_world.R))

\* OpenGL -> OpenCV: the camera frame is turned by pi about its x axis
gl2cv(R, t) ==
    [R |-> MatMul(euler_x_to_matrix(Pi), R), t |-> MatVec(euler_x_to_matrix(Pi), t)]

\* scene units to millimetres; None stays None
bu_to_mm(x) == [k \in DOMAIN x |-> x[k] * 1000]
bu_to_mm_rows(a) == [r \in DOMAIN a |-> bu_to_mm(a[r])]

\* render resolution and focal length (pixels) of the scene's camera
resolution_x == 64
resolution_y == 48
focal_px == 32

\* perspective projection of a world point: camera-frame x, y and depth
\* (the native camera looks down -Z)
project_p3d(p, cam) ==
    LET q == MatVec(Transpose(cam.matrix_world.R), VSub(p, cam.matrix_world.t))
    IN  <<q[1], q[2], -q[3]>>

\* normalised coordinates to pixel coordinates
p2d_to_pixel_coords(prj) ==
    IF prj[3] <= 0 THEN <<0, 0>>
    ELSE <<(resolution_x \div 2) + ((focal_px * prj[1]) \div prj[3]),
           (resolution_y \div 2) - ((focal_px * prj[2]) \div prj[3])>>

(***************************************************************************)
(* Mask images: a function from pixels <<row, column>> to <<r, g, b>>.     *)
(***************************************************************************)
mask_rows == 2
mask_cols == 3
Pixels == (0..(mask_rows - 1)) \X (0..(mask_cols - 1))
ZeroImage == [p \in Pixels |-> <<0, 0, 0>>]
BlobImage == [p \in Pixels |-> IF p[2] >= 1 THEN <<255, 255, 255>> ELSE <<0, 0, 0>>]

SetMin(S) == CHOOSE x \in S : \A y \in S : x <= y
SetMax(S) == CHOOSE x \in S : \A y \in S : x >= y

\* amira_blender_rendering.postprocessing.boundingbox_from_mask: the tight
\* box around the non-zero pixels, or None when there is none
boundingbox_from_mask(mask) ==
    LET nz == {p \in DOMAIN mask : mask[p] # 0}
    IN  IF nz = {} THEN None
        ELSE <<SetMin({p[2] : p \in nz}), SetMin({p[1] : p \in nz}),
               SetMax({p[2] : p \in nz}), SetMax({p[1] : p \in nz})>>

\* RenderManager.compute_2dbbox
compute_2dbbox(fname_mask) ==
    IF fname_mask \notin DOMAIN maskfiles
    THEN [err |-> "FileNotFoundError", val |-> None]
    ELSE LET img == maskfiles[fname_mask]                       \* imageio.imread
             mask == [p \in DOMAIN img |-> img[p][1] + img[p][2] + img[p][3]]  \* np.sum(axis=2)
         IN  [err |-> "none", val |-> boundingbox_from_mask(mask)]

(***************************************************************************)
(* 3D bounding boxes.                                                      *)
(***************************************************************************)
\* the default permutation of reorder_bbox (0-based, as in the source)
DefaultOrder == <<1, 0, 2, 3, 5, 4, 6, 7>>

reorder_bbox_identity(aabb, order) ==
    IF Len(aabb) # 8
    THEN [err |-> "RuntimeError", val |-> None]
    ELSE [err |-> "none", val |-> [k \in 1..8 |-> aabb[k]]]

\* RenderManager.reorder_bbox
reorder_bbox(aabb, order) ==
    IF Len(aabb) # 8
    THEN [err |-> "RuntimeError", val |-> None]
    ELSE [err |-> "none", val |-> [k \in 1..8 |-> aabb[order[k] + 1]]]

\* RenderManager.compute_3dbbox; scene_camera is bpy.context.scene.camera
compute_3dbbox(bpyobj, scene_camera) ==
    LET aabb_orig == bpyobj.bound_box
        raise(e) == [err |-> e, aabb |-> None, oobb |-> None, corners3d |-> None]
    IN  IF Len(aabb_orig) < 7
        THEN raise("IndexError")            \* aabb[0] or aabb[6] does not exist
        ELSE
        LET aa_centroid == VAdd(aabb_orig[1], VHalf(VSub(aabb_orig[7], aabb_orig[1])))
            aabb == reorder_bbox(aabb_orig, DefaultOrder)
        IN  IF aabb.err # "none" THEN raise(aabb.err)
            ELSE
            LET np_aabb == <<aa_centroid>> \o aabb.val
                oobb0 == [k \in 1..Len(aabb_orig) |-> Apply(bpyobj.matrix_world, aabb_orig[k])]
                oo_centroid == VAdd(oobb0[1], VHalf(VSub(oobb0[7], oobb0[1])))
                oobb == reorder_bbox(oobb0, DefaultOrder)
            IN  IF oobb.err # "none" THEN raise(oobb.err)
                ELSE
                LET np_oobb == <<oo_centroid>> \o oobb.val
                    pix(v) == p2d_to_pixel_coords(project_p3d(v, scene_camera))
                    np_corners3d == <<pix(oo_centroid)>> \o [k \in 1..8 |-> pix(oobb.val[k])]
                IN  [err |-> "none", aabb |-> np_aabb, oobb |-> np_oobb,
                     corners3d |-> np_corners3d]

(***************************************************************************)
(* Render results.                                                         *)
(***************************************************************************)
apply_unit_conversion(x) == bu_to_mm(x)
apply_unit_conversion_rows(a) == bu_to_mm_rows(a)

convert_units_twice(render_result_) ==
    IF unit_conversion = "None" THEN render_result_
    ELSE [render_result_ EXCEPT
            !.translation = apply_unit_conversion(@),
            !.camera_translation = apply_unit_conversion(apply_unit_conversion(@)),
            !.aabb = apply_unit_conversion_rows(apply_unit_conversion_rows(@)),
            !.oobb = apply_unit_conversion_rows(@)]

\* RenderManager.convert_units
convert_units(render_result_) ==
    IF unit_conversion = "None" THEN render_result_
    ELSE [render_result_ EXCEPT
            !.translation = apply_unit_conversion(@),
            !.camera_translation = apply_unit_conversion(@),
            !.aabb = apply_unit_conversion_rows(@),
            !.oobb = apply_unit_conversion_rows(@)]

empty_mask_always_downgrade(obj, visibility_from_mask) ==
    [err |-> "none", obj |-> [obj EXCEPT !.visible = FALSE]]

empty_mask_keep_visible(obj, visibility_from_mask) ==
    IF visibility_from_mask
    THEN [err |-> "none", obj |-> obj]
    ELSE [err |-> "ValueError", obj |-> obj]

camera_rotation_cv_left(R_cam) == MatMul(euler_x_to_matrix(Pi), R_cam)

\* build_render_result, the branches taken when the mask of a visible object
\* is empty: downgrade the object, or raise
empty_mask(obj, visibility_from_mask) ==
    IF visibility_from_mask
    THEN [err |-> "none", obj |-> [obj EXCEPT !.visible = FALSE]]
    ELSE [err |-> "ValueError", obj |-> obj]

\* build_render_result, the camera rotation in OpenCV convention
camera_rotation_cv(R_cam) == MatMul(R_cam, euler_x_to_matrix(Pi))

\* RenderManager.build_render_result.  Returns [err, obj, ret]: the exception
\* raised or "none", the object dictionary as the call leaves it, and the
\* returned pair <<render_result_gl, render_result_cv>> (<<>> when it raises).
build_render_result(obj, cam, zeroing, visibility_from_mask) ==
    LET t == get_relative_translation(obj.bpy, cam)
        R == get_relative_rotation_to_cam_deg(obj.bpy, cam, zeroing)
        t_cam == cam.matrix_world.t
        R_cam == cam.matrix_world.R
        c2 == IF obj.visible THEN compute_2dbbox(obj.fname_mask)
              ELSE [err |-> "none", val |-> None]
        corners2d == c2.val
        has2d == obj.visible /\ c2.err = "none" /\ corners2d # None
        b3 == IF has2d THEN compute_3dbbox(obj.bpy, cam)
              ELSE [err |-> "none", aabb |-> None, oobb |-> None, corners3d |-> None]
        pol == IF obj.visible /\ c2.err = "none" /\ corners2d = None
               THEN empty_mask(obj, visibility_from_mask)
               ELSE [err |-> "none", obj |-> obj]
        raised == IF c2.err # "none" THEN c2.err
                  ELSE IF b3.err # "none" THEN b3.err
                  ELSE pol.err
        obj1 == pol.obj
        render_result_gl ==
            [object_class_name |-> obj1.object_class_name,
             object_class_id |-> obj1.object_class_id,
             object_name |-> obj1.bpy.name,
             object_id |-> obj1.object_id,
             rotation |-> R,
             translation |-> t,
             corners2d |-> corners2d,
             corners3d |-> b3.corners3d,
             aabb |-> b3.aabb,
             oobb |-> b3.oobb,
             mask_name |-> obj1.id_mask,
             visible |-> obj1.visible,
             camera_rotation |-> R_cam,
             camera_translation |-> t_cam]
        cv == gl2cv(R, t)
        R_cam_cv == camera_rotation_cv(R_cam)
        t_cam_cv == t_cam
        render_result_cv ==
            [object_class_name |-> obj1.object_class_name,
             object_class_id |-> obj1.object_class_id,
             object_name |-> obj1.bpy.name,
             object_id |-> obj1.object_id,
             rotation |-> cv.R,
             translation |-> cv.t,
             corners2d |-> corners2d,
             corners3d |-> b3.corners3d,
             aabb |-> b3.aabb,
             oobb |-> b3.oobb,
             mask_name |-> obj1.id_mask,
             visible |-> obj1.visible,
             camera_rotation |-> R_cam_cv,
             camera_translation |-> t_cam_cv]
    IN  IF raised # "none"
        THEN [err |-> raised, obj |-> obj, ret |-> << >>]
        ELSE [err |-> "none", obj |-> obj1,
              ret |-> <<convert_units(render_result_gl), convert_units(render_result_cv)>>]

(***************************************************************************)
(* The output tree (dirinfo) and the file system.                          *)
(***************************************************************************)
dirinfo ==
    [images |-> [base_path |-> <<"Images">>,
                 range |-> <<"Images", "range">>,
                 depth |-> <<"Images", "depth">>],
     annotations |-> [opengl |-> <<"Annotations", "OpenGL">>,
                      opencv |-> <<"Annotations", "OpenCV">>]]
base_filename == "000"

Root == << >>
Parent(path) == SubSeq(path, 1, Len(path) - 1)
Prefixes(path) == {SubSeq(path, 1, n) : n \in 0..Len(path)}
\* os.path.join(path, name)
join(path, name) == Append(path, name)
\* os.path.exists
exists(path) == path \in dirs \/ path \in DOMAIN files
\* os.mkdir: the outcome [err, dirs]
mkdir(path) ==
    IF exists(path) THEN [err |-> "FileExistsError", dirs |-> dirs]
    ELSE IF Parent(path) \notin dirs THEN [err |-> "FileNotFoundError", dirs |-> dirs]
    ELSE [err |-> "none", dirs |-> dirs \cup {path}]
\* os.makedirs(path, exist_ok=True) on the directories d
makedirs(d, path) == d \cup Prefixes(path)

(***************************************************************************)
(* Python's str and list helpers used by postprocess.                      *)
(***************************************************************************)
\* c in name, for strings
IsSubstring(c, name) ==
    \E k \in 0..(Len(name) - Len(c)) : SubSeq(name, k + 1, k + Len(c)) = c
\* any(list): some element is truthy; a string is truthy iff it is not empty
any(list) == \E k \in 1..Len(list) : Len(list[k]) > 0
Matching(parallel_cameras, name) ==
    SelectSeq(parallel_cameras, LAMBDA c : IsSubstring(c, name))

(***************************************************************************)
(* RenderManager.postprocess, step by step.                                *)
(*   pc: "start" -> "depth" -> "disparity" -> "loop" -> "save" -> "done",  *)
(*   or "raised" when an exception leaves postprocess.                     *)
(***************************************************************************)
Zeroing == euler_x_to_matrix(1)

fpath_depth == join(dirinfo.images.depth, <<base_filename, ".png">>)
dirpath_disparity == join(dirinfo.images.base_path, "disparity")
fpath_disparity == join(dirpath_disparity, <<base_filename, ".png">>)
fpath_json(conv) == join(dirinfo.annotations[conv], <<base_filename, ".json">>)

\* names of an object's mask file as the renderer writes it, and as the
\* compositor's postprocess leaves it
RawMaskName(obj) == <<obj.id_mask, "0001">>
FixedMaskName(obj) == <<obj.id_mask>>

Raise(e) == pc' = "raised" /\ err' = e

\* self.compositor.postprocess(): fixes the mask file names and stores them
\* in the object dictionaries
CompositorPostprocess ==
    /\ pc = "start"
    /\ maskfiles' = [n \in {FixedMaskName(objs[k]) : k \in 1..Len(objs)} |->
                        maskfiles[<<n[1], "0001">>]]
    /\ objs' = [k \in 1..Len(objs) |-> [objs[k] EXCEPT !.fname_mask = FixedMaskName(objs[k])]]
    /\ pc' = "depth"
    /\ trace' = Append(trace, "compositor.postprocess")
    /\ UNCHANGED <<err, cfg, unit_conversion, camera, objs0, dirs, dirs0, files, i,
                   results_gl, results_cv, render_result, bb_obj, bb_ret, gen>>

\* lines 95-109: create the depth directory, rectify the range map into depth
RectifyDepth ==
    /\ pc = "depth"
    /\ LET m == IF exists(dirinfo.images.depth)
                THEN [err |-> "none", dirs |-> dirs]
                ELSE mkdir(dirinfo.images.depth)
       IN  IF m.err # "none"
           THEN /\ Raise(m.err)
                /\ UNCHANGED <<dirs, files, trace>>
           ELSE /\ dirs' = m.dirs
                /\ files' = (fpath_depth :> [from |-> "range"]) @@ files
                /\ pc' = "disparity"
                /\ err' = err
                /\ trace' = Append(trace, "range_to_depth")
    /\ UNCHANGED <<cfg, unit_conversion, camera, objs, objs0, dirs0, maskfiles, i,
                   results_gl, results_cv, render_result, bb_obj, bb_ret, gen>>

\* the condition of lines 114-117
disparity_wanted ==
    cfg.compute_disparity /\ any(Matching(cfg.parallel_cameras, camera.name))

\* lines 114-130: disparity for parallel cameras; lines 133-134
Disparity ==
    /\ pc = "disparity"
    /\ IF disparity_wanted
       THEN LET m == IF exists(dirpath_disparity)
                     THEN [err |-> "none", dirs |-> dirs]
                     ELSE mkdir(dirpath_disparity)
            IN  IF m.err # "none"
                THEN /\ Raise(m.err)
                     /\ UNCHANGED <<dirs, files, trace>>
                ELSE /\ dirs' = m.dirs
                     /\ files' = (fpath_disparity :>
                                    [from |-> IF fpath_depth \in DOMAIN files
                                              THEN "depth" ELSE "range"]) @@ files
                     /\ pc' = "loop"
                     /\ err' = err
                     /\ trace' = Append(trace, "compute_disparity")
       ELSE /\ pc' = "loop"
            /\ UNCHANGED <<err, dirs, files, trace>>
    /\ i' = 1
    /\ results_gl' = << >>
    /\ results_cv' = << >>
    /\ UNCHANGED <<cfg, unit_conversion, camera, objs, objs0, dirs0, maskfiles,
                   render_result, bb_obj, bb_ret, gen>>

\* the body of the loop of lines 135-140 on the outcome r of build_render_result
loop_body_swallow(r) ==
    IF r.err # "none"
    THEN /\ UNCHANGED <<pc, err, objs, render_result, results_gl, results_cv>>
    ELSE /\ UNCHANGED <<pc, err>>
         /\ objs' = [objs EXCEPT ![i] = r.obj]
         /\ render_result' = r.ret
         /\ IF r.obj.visible
            THEN /\ results_gl' = Append(results_gl, r.ret[1])
                 /\ results_cv' = Append(results_cv, r.ret[2])
            ELSE UNCHANGED <<results_gl, results_cv>>

loop_body_append_all(r) ==
    IF r.err # "none"
    THEN /\ Raise(r.err)
         /\ UNCHANGED <<objs, render_result, results_gl, results_cv>>
    ELSE /\ UNCHANGED <<pc, err>>
         /\ objs' = [objs EXCEPT ![i] = r.obj]
         /\ render_result' = r.ret
         /\ results_gl' = Append(results_gl, r.ret[1])
         /\ results_cv' = Append(results_cv, r.ret[2])

loop_body(r) ==
    IF r.err # "none"
    THEN /\ Raise(r.err)
         /\ UNCHANGED <<objs, render_result, results_gl, results_cv>>
    ELSE /\ UNCHANGED <<pc, err>>
         /\ objs' = [objs EXCEPT ![i] = r.obj]
         /\ render_result' = r.ret
         /\ IF r.obj.visible
            THEN /\ results_gl' = Append(results_gl, r.ret[1])
                 /\ results_cv' = Append(results_cv, r.ret[2])
            ELSE UNCHANGED <<results_gl, results_cv>>

\* one iteration of the loop of lines 135-140
LoopStep ==
    /\ pc = "loop"
    /\ i <= Len(objs)
    /\ loop_body(build_render_result(objs[i], camera, Zeroing, cfg.visibility_from_mask))
    /\ i' = i + 1
    /\ trace' = Append(trace, "build_render_result")
    /\ UNCHANGED <<cfg, unit_conversion, camera, objs0, dirs, dirs0, files, maskfiles,
                   bb_obj, bb_ret, gen>>

Collect_early ==
    /\ pc = "loop"
    /\ i > 1
    /\ results_gl' = IF Len(results_gl) = 0
                     THEN Append(results_gl, render_result[1]) ELSE results_gl
    /\ results_cv' = IF Len(results_cv) = 0
                     THEN Append(results_cv, render_result[2]) ELSE results_cv
    /\ pc' = "save"
    /\ UNCHANGED <<err, cfg, unit_conversion, camera, objs, objs0, dirs, dirs0, files,
                   maskfiles, i, render_result, trace, bb_obj, bb_ret, gen>>

\* lines 141-145: with no visible object, add the last result built
Collect ==
    /\ pc = "loop"
    /\ i > Len(objs)
    /\ IF Len(results_gl) = 0 /\ render_result = << >>
       THEN /\ Raise("UnboundLocalError")
            /\ UNCHANGED <<results_gl, results_cv>>
       ELSE /\ results_gl' = IF Len(results_gl) = 0
                             THEN Append(results_gl, render_result[1]) ELSE results_gl
            /\ results_cv' = IF Len(results_cv) = 0
                             THEN Append(results_cv, render_result[2]) ELSE results_cv
            /\ pc' = "save"
            /\ err' = err
    /\ UNCHANGED <<cfg, unit_conversion, camera, objs, objs0, dirs, dirs0, files,
                   maskfiles, i, render_result, trace, bb_obj, bb_ret, gen>>

\* RenderManager.save_annotations (called at line 146)
save_annotations ==
    /\ pc = "save"
    /\ dirs' = makedirs(makedirs(dirs, dirinfo.annotations.opengl),
                        dirinfo.annotations.opencv)
    /\ files' = (fpath_json("opengl") :> results_gl) @@
                (fpath_json("opencv") :> results_cv) @@ files
    /\ pc' = "done"
    /\ trace' = Append(trace, "save_annotations")
    /\ UNCHANGED <<err, cfg, unit_conversion, camera, objs, objs0, dirs0, maskfiles, i,
                   results_gl, results_cv, render_result, bb_obj, bb_ret, gen>>

Next ==
    \/ CompositorPostprocess
    \/ RectifyDepth
    \/ Disparity
    \/ LoopStep
    \/ Collect
    \/ save_annotations

(***************************************************************************)
(* Stand-alone call of compute_3dbbox.                                     *)
(***************************************************************************)
BBoxCall ==
    /\ pc = "bbox_call"
    /\ bb_ret' = compute_3dbbox(bb_obj, camera)
    /\ pc' = "bbox_done"
    /\ UNCHANGED <<err, cfg, unit_conversion, camera, objs, objs0, dirs, dirs0, files,
                   maskfiles, i, results_gl, results_cv, render_result, trace, bb_obj, gen>>

NextBBox == BBoxCall

(***************************************************************************)
(* Inputs.                                                                 *)
(***************************************************************************)
\* the 8 corners of the box [lo, hi] in blender's order (docstring of
\* compute_3dbbox)
BoxCorners(lo, hi) ==
    <<<<lo[1], lo[2], lo[3]>>, <<lo[1], lo[2], hi[3]>>,
      <<lo[1], hi[2], hi[3]>>, <<lo[1], hi[2], lo[3]>>,
      <<hi[1], lo[2], lo[3]>>, <<hi[1], lo[2], hi[3]>>,
      <<hi[1], hi[2], hi[3]>>, <<hi[1], hi[2], lo[3]>>>>
\* a bound_box of n corners: n = 8 is what blender hands out, any other n is
\* a corrupted one
BoundBox(lo, hi, n) == [k \in 1..n |-> BoxCorners(lo, hi)[((k - 1) % 8) + 1]]

RotZ90 == <<<<0, -1, 0>>, <<1, 0, 0>>, <<0, 0, 1>>>>
Worlds ==
    {[R |-> Identity3, t |-> <<0, 0, 0>>],
     [R |-> RotZ90, t |-> <<2, 0, -4>>],
     [R |-> <<<<2, 0, 0>>, <<0, 0, -2>>, <<0, 2, 0>>>>, t |-> <<-2, 4, 0>>]}
ObjWorld(k) == [R |-> IF k % 2 = 1 THEN RotZ90 ELSE Identity3, t |-> <<2 * k, 0, -4>>]

TheCamera ==
    [name |-> <<"C", "L">>, matrix_world |-> [R |-> RotZ90, t |-> <<0, 0, 20>>]]

ObjKinds ==
    [visible : BOOLEAN,
     image : {ZeroImage, BlobImage},
     bound_box : {BoundBox(<<-2, -2, -2>>, <<2, 4, 6>>, n) : n \in {4, 8, MaxCorners}}]

MkObj(k, kind) ==
    [object_class_name |-> "Tool.Cap",
     object_class_id |-> 0,
     object_id |-> k - 1,
     id_mask |-> <<"Tool.Cap", k - 1>>,
     fname_mask |-> None,
     visible |-> kind.visible,
     bpy |-> [name |-> <<"Tool.Cap", k>>,
              matrix_world |-> ObjWorld(k),
              bound_box |-> kind.bound_box]]

\* the object lists of at most n objects of the given kinds, as sequences of kinds
KindLists(kinds, n) == UNION {[1..m -> kinds] : m \in 0..n}

AllDirs ==
    {Root, dirinfo.images.base_path, dirinfo.images.depth, dirpath_disparity,
     Parent(dirinfo.annotations.opengl), dirinfo.annotations.opengl,
     dirinfo.annotations.opencv}
DirStates == {d \in SUBSET AllDirs : Root \in d /\ \A q \in d : q = Root \/ Parent(q) \in d}

MaxCams == 2       \* longest parallel_cameras list
CamStrings == {<< >>, <<"L">>, <<"R">>, <<"C", "L">>}
CamLists == UNION {[1..m -> CamStrings] : m \in 0..MaxCams}

NoBBoxObj == [name |-> << >>, matrix_world |-> [R |-> Identity3, t |-> <<0, 0, 0>>],
              bound_box |-> << >>]
NoBBoxRet == [err |-> "none", aabb |-> None, oobb |-> None, corners3d |-> None]
NoGen == [image_count |-> 0, environment_textures |-> << >>, format_width |-> 0,
          base_filename |-> << >>, filepath |-> "", written |-> << >>]

InitWith(kindLists, dirStates, disparityFlags, camLists, maskFlags, conversions) ==
    /\ pc = "start"
    /\ err = "none"
    /\ cfg \in [compute_disparity : disparityFlags,
                parallel_cameras : camLists,
                visibility_from_mask : maskFlags]
    /\ unit_conversion \in conversions
    /\ camera = TheCamera
    /\ \E ks \in kindLists :
          /\ objs = [k \in 1..Len(ks) |-> MkObj(k, ks[k])]
          /\ maskfiles = [n \in {RawMaskName(MkObj(k, ks[k])) : k \in 1..Len(ks)} |->
                             ks[n[1][2] + 1].image]
    /\ objs0 = objs
    /\ dirs \in dirStates
    /\ dirs0 = dirs
    /\ files = << >>
    /\ i = 0
    /\ results_gl = << >>
    /\ results_cv = << >>
    /\ render_result = << >>
    /\ trace = << >>
    /\ bb_obj = NoBBoxObj
    /\ bb_ret = NoBBoxRet
    /\ gen = NoGen

\* postprocess on every list of at most MaxObjs objects
Init ==
    InitWith(KindLists(ObjKinds, MaxObjs),
             {AllDirs, {Root, dirinfo.images.base_path}},
             BOOLEAN, {<< >>, <<<<"L">>>>}, BOOLEAN, {"None", "bu_to_mm"})

Spec == Init /\ [][Next]_vars

\* postprocess on every state of the output tree and every parallel_cameras list
InitDirs ==
    InitWith(KindLists({k \in ObjKinds : k.visible /\ k.image = BlobImage
                                          /\ Len(k.bound_box) = 8}, 1),
             DirStates, BOOLEAN, CamLists, {FALSE}, {"bu_to_mm"})

SpecDirs == InitDirs /\ [][Next]_vars

\* compute_3dbbox on bound boxes of 0..MaxCorners corners
InitBBox ==
    /\ pc = "bbox_call"
    /\ err = "none"
    /\ cfg = [compute_disparity |-> FALSE, parallel_cameras |-> << >>,
              visibility_from_mask |-> FALSE]
    /\ unit_conversion = "None"
    /\ camera = TheCamera
    /\ objs = << >>
    /\ objs0 = << >>
    /\ maskfiles = << >>
    /\ dirs = AllDirs
    /\ dirs0 = AllDirs
    /\ files = << >>
    /\ i = 0
    /\ results_gl = << >>
    /\ results_cv = << >>
    /\ render_result = << >>
    /\ trace = << >>
    /\ \E lo \in {<<-2, -2, -2>>, <<0, -4, 2>>}, ext \in {<<2, 4, 6>>, <<4, 4, 4>>},
          n \in 0..MaxCorners, w \in Worlds :
          bb_obj = [name |-> <<"Tool.Cap", 1>>, matrix_world |-> w,
                    bound_box |-> BoundBox(lo, VAdd(lo, ext), n)]
    /\ bb_ret = NoBBoxRet
    /\ gen = NoGen

SpecBBox == InitBBox /\ [][NextBBox]_vars

(***************************************************************************)
(* Properties.                                                             *)
(***************************************************************************)
\* the mask image of object o, as it lies on disk, is entirely zero
MaskIsZero(o) ==
    /\ o.fname_mask \in DOMAIN maskfiles
    /\ \A q \in DOMAIN maskfiles[o.fname_mask] : maskfiles[o.fname_mask][q] = <<0, 0, 0>>

NoBBoxFields(r) ==
    r.corners2d = None /\ r.corners3d = None /\ r.aabb = None /\ r.oobb = None
AllBBoxFields(r) ==
    r.corners2d # None /\ r.corners3d # None /\ r.aabb # None /\ r.oobb # None

\* the object loop has run to its end over a list without a visible object
LoopEndedNoneVisible ==
    /\ pc \in {"save", "done", "raised"}
    /\ i > Len(objs)
    /\ \A k \in 1..Len(objs) : ~objs[k].visible

\* C1: whenever postprocess has gone through an object list that holds no
\* visible object (visibility as build_render_result left it), save_annotations
\* is called with two collections of exactly one record each, the result built
\* for the last object of the list.
C1_ZeroVisibleYieldsOneRecord ==
    LoopEndedNoneVisible =>
        /\ pc # "raised"
        /\ Len(results_gl) = 1 /\ Len(results_cv) = 1
        /\ results_gl[1] = render_result[1] /\ results_cv[1] = render_result[2]
        /\ results_gl[1].object_id = objs[Len(objs)].object_id
        /\ results_cv[1].object_id = objs[Len(objs)].object_id

C3_WrongCornerCountRaisesRuntimeError ==
    (pc = "bbox_done" /\ Len(bb_obj.bound_box) # 8) => bb_ret.err = "RuntimeError"

\* the permutation [1,0,2,3,5,4,6,7]: 0 <-> 1 and 4 <-> 5, everything else fixed
ClaimedOrder(k) ==
    IF k = 0 THEN 1 ELSE IF k = 1 THEN 0 ELSE IF k = 4 THEN 5 ELSE IF k = 5 THEN 4 ELSE k

\* c is the midpoint a + (b - a)/2
IsCentroid(c, a, b) == \A d \in 1..3 : 2 * c[d] = 2 * a[d] + (b[d] - a[d])

\* C4: for a bound box of 8 corners compute_3dbbox returns aabb and oobb of 9
\* rows: row 0 the centroid corner0 + (corner6 - corner0)/2 of the corners in
\* their original order, row k+1 the corner [1,0,2,3,5,4,6,7][k] (for oobb:
\* the corners after the world matrix); the permutation is a bijection of 0..7.
C4_BBoxRows ==
    (pc = "bbox_done" /\ Len(bb_obj.bound_box) = 8) =>
        LET box == bb_obj.bound_box
            wbox == [k \in 1..8 |-> Apply(bb_obj.matrix_world, box[k])]
        IN  /\ bb_ret.err = "none"
            /\ Len(bb_ret.aabb) = 9 /\ Len(bb_ret.oobb) = 9
            /\ IsCentroid(bb_ret.aabb[1], box[1], box[7])
            /\ IsCentroid(bb_ret.oobb[1], wbox[1], wbox[7])
            /\ \A k \in 0..7 :
                  /\ bb_ret.aabb[k + 2] = box[ClaimedOrder(k) + 1]
                  /\ bb_ret.oobb[k + 2] = wbox[ClaimedOrder(k) + 1]
            /\ {ClaimedOrder(k) : k \in 0..7} = 0..7

C4_Witness ==
    /\ pc = "bbox_done"
    /\ Len(bb_obj.bound_box) = 8
    /\ bb_ret.err = "none"
    /\ bb_obj.matrix_world.R # Identity3
    /\ bb_ret.aabb[2] # bb_ret.aabb[3]
    /\ bb_ret.oobb[2] # bb_ret.aabb[2]

\* the results build_render_result has returned so far that are still held
ReturnedResults ==
    {render_result[c] : c \in 1..Len(render_result)}
        \cup {results_gl[k] : k \in 1..Len(results_gl)}
        \cup {results_cv[k] : k \in 1..Len(results_cv)}

\* C5: every result returned by build_render_result, in both conventions and
\* after unit conversion, has all bounding-box fields null when it is not
\* visible and all of them populated when it is visible.
C5_VisibleIffBBoxFields ==
    \A r \in ReturnedResults :
        /\ ~r.visible => NoBBoxFields(r)
        /\ r.visible => AllBBoxFields(r)

C5_Witness ==
    /\ pc = "save"
    /\ unit_conversion = "bu_to_mm"
    /\ Len(objs) = 2
    /\ results_gl[1].visible /\ AllBBoxFields(results_gl[1])
    /\ ~render_result[2].visible /\ NoBBoxFields(render_result[2])

Rx180 == <<<<1, 0, 0>>, <<0, -1, 0>>, <<0, 0, -1>>>>

\* C6: the two results returned for an object agree on identity, mask name,
\* visible flag, camera translation, corners2d, corners3d, aabb and oobb, and
\* the OpenCV camera rotation is the OpenGL camera rotation times the rotation
\* by 180 degrees about x, on the right.
C6_ConventionsAgree ==
    Len(render_result) = 2 =>
        LET gl == render_result[1]
            cv == render_result[2]
        IN  /\ cv.object_class_name = gl.object_class_name
            /\ cv.object_class_id = gl.object_class_id
            /\ cv.object_name = gl.object_name
            /\ cv.object_id = gl.object_id
            /\ cv.mask_name = gl.mask_name
            /\ cv.visible = gl.visible
            /\ cv.camera_translation = gl.camera_translation
            /\ cv.corners2d = gl.corners2d
            /\ cv.corners3d = gl.corners3d
            /\ cv.aabb = gl.aabb
            /\ cv.oobb = gl.oobb
            /\ \A r \in 1..3, c \in 1..3 :
                  cv.camera_rotation[r][c] = Dot(gl.camera_rotation[r], Col(Rx180, c))

C6_Witness ==
    /\ Len(render_result) = 2
    /\ render_result[1].visible
    /\ unit_conversion = "bu_to_mm"
    /\ render_result[2].camera_rotation # render_result[1].camera_rotation
    /\ render_result[2].rotation # render_result[1].rotation
    /\ render_result[2].aabb # None

\* C7: once the disparity step of postprocess is over, the disparity file of
\* the frame exists, and the disparity directory was created if it was
\* missing, if and only if compute_disparity is set and the camera's name
\* contains one of the parallel_cameras strings.
C7_DisparityIffCameraMatches ==
    pc \in {"loop", "save", "done"} =>
        LET matches == /\ cfg.compute_disparity
                       /\ \E k \in 1..Len(cfg.parallel_cameras) :
                             IsSubstring(cfg.parallel_cameras[k], camera.name)
        IN  /\ (fpath_disparity \in DOMAIN files) <=> matches
            /\ (dirpath_disparity \in dirs) <=> (matches \/ dirpath_disparity \in dirs0)

\* C8: postprocess never raises because a directory of the output tree (or a
\* parent of it) is missing, or because it is already there.
C8_MissingDirectoryNeverAnError ==
    err \notin {"FileNotFoundError", "FileExistsError"}

FatalObject(o) ==
    /\ o.visible
    /\ \/ MaskIsZero(o) /\ ~cfg.visibility_from_mask
       \/ ~MaskIsZero(o) /\ Len(o.bpy.bound_box) # 8

AnnotationWritten ==
    fpath_json("opengl") \in DOMAIN files \/ fpath_json("opencv") \in DOMAIN files

\* C10: when build_render_result raises for an object of the frame,
\* postprocess ends with that error, save_annotations is not called and no
\* annotation file is written, whatever was built before; the depth file and
\* the disparity file written before stay.
C10_FatalErrorAbortsFrame ==
    [][/\ (pc = "loop" /\ i <= Len(objs) /\ FatalObject(objs[i])) =>
            /\ pc' = "raised"
            /\ err' \in {"ValueError", "RuntimeError", "IndexError"}
            /\ files' = files
            /\ fpath_depth \in DOMAIN files'
            /\ ~AnnotationWritten'
            /\ \A k \in 1..Len(trace') : trace'[k] # "save_annotations"
       /\ pc = "raised" => (pc' = "raised" /\ files' = files)]_vars

C10_Witness ==
    /\ pc = "raised"
    /\ err = "ValueError"
    /\ i = 3
    /\ Len(results_gl) = 1
    /\ fpath_depth \in DOMAIN files
    /\ fpath_disparity \in DOMAIN files
    /\ ~AnnotationWritten

\* positions of the call c in the trace
Calls(c) == {k \in 1..Len(trace) : trace[k] = c}

\* C11: within postprocess the compositor's postprocess has run, and every
\* object carries the fixed name of a mask file that is on disk, before
\* build_render_result reads a mask; the range map is rectified into the
\* frame's depth file before the disparity is computed, and the disparity is
\* computed from that depth file; save_annotations is called only after
\* build_render_result has run for every object of the list.
C11_StepsInOrder ==
    /\ \A k \in Calls("build_render_result") :
          \E j \in Calls("compositor.postprocess") : j < k
    /\ (pc = "loop" /\ i <= Len(objs)) =>
          \A k \in 1..Len(objs) :
              /\ objs[k].fname_mask = FixedMaskName(objs[k])
              /\ objs[k].fname_mask \in DOMAIN maskfiles
    /\ \A k \in Calls("compute_disparity") :
          /\ \E j \in Calls("range_to_depth") : j < k
          /\ fpath_depth \in DOMAIN files
          /\ fpath_disparity \in DOMAIN files
          /\ files[fpath_disparity].from = "depth"
    /\ \A k \in Calls("save_annotations") :
          /\ Cardinality({j \in Calls("build_render_result") : j < k}) = Len(objs)
          /\ \A j \in Calls("build_render_result") : j < k
    /\ pc \in {"save", "done"} =>
          Cardinality(Calls("build_render_result")) = Len(objs)

C11_Witness ==
    /\ pc = "done"
    /\ Len(objs) = 2
    /\ trace = <<"compositor.postprocess", "range_to_depth", "compute_disparity",
                 "build_render_result", "build_render_result", "save_annotations">>
    /\ files[fpath_disparity].from = "depth"

\* x is the vector v taken f times
IsScaled(x, v, f) == Len(x) = Len(v) /\ \A d \in 1..Len(v) : x[d] = f * v[d]
IsScaledRows(a, b, f) == Len(a) = Len(b) /\ \A r \in 1..Len(b) : IsScaled(a[r], b[r], f)

\* C12: the two results build_render_result returns for an object carry
\* translation, camera translation, aabb and oobb converted exactly once
\* (times 1000 under bu_to_mm, unchanged when no conversion is configured),
\* and rotation, camera rotation, corners2d, corners3d, identity, mask name
\* and visible flag as they were built.
C12_ConvertedOnce ==
    (Len(render_result) = 2 /\ i >= 2) =>
        LET o == objs[IF pc = "raised" THEN i - 2 ELSE i - 1]   \* the object last returned for
            f == IF unit_conversion = "None" THEN 1 ELSE 1000
            t == get_relative_translation(o.bpy, camera)
            R == get_relative_rotation_to_cam_deg(o.bpy, camera, Zeroing)
            cv == gl2cv(R, t)
            c2 == IF o.visible THEN compute_2dbbox(o.fname_mask).val ELSE None
            b3 == IF o.visible THEN compute_3dbbox(o.bpy, camera) ELSE NoBBoxRet
            gl_r == render_result[1]
            cv_r == render_result[2]
        IN  /\ IsScaled(gl_r.translation, t, f)
            /\ IsScaled(cv_r.translation, cv.t, f)
            /\ gl_r.rotation = R /\ cv_r.rotation = cv.R
            /\ gl_r.camera_rotation = camera.matrix_world.R
            /\ cv_r.camera_rotation = MatMul(camera.matrix_world.R, Rx180)
            /\ \A r \in {gl_r, cv_r} :
                  /\ IsScaled(r.camera_translation, camera.matrix_world.t, f)
                  /\ IsScaledRows(r.aabb, b3.aabb, f)
                  /\ IsScaledRows(r.oobb, b3.oobb, f)
                  /\ r.corners2d = c2
                  /\ r.corners3d = b3.corners3d
                  /\ r.object_class_name = o.object_class_name
                  /\ r.object_class_id = o.object_class_id
                  /\ r.object_name = o.bpy.name
                  /\ r.object_id = o.object_id
                  /\ r.mask_name = o.id_mask
                  /\ r.visible = o.visible

C12_Witness ==
    /\ Len(render_result) = 2
    /\ i = 3
    /\ unit_conversion = "bu_to_mm"
    /\ render_result[1].visible
    /\ render_result[1].aabb # None
    /\ render_result[1].camera_translation = <<0, 0, 20000>>
    /\ render_result[2].translation # render_result[1].translation
    /\ \E r \in 1..9, d \in 1..3 : render_result[2].aabb[r][d] # 0

\* the objects among the first n of the list that are visible, in list order
VisibleUpTo(n) == SelectSeq(SubSeq(objs, 1, n), LAMBDA o : o.visible)

SameObject(r, o) ==
    /\ r.object_class_name = o.object_class_name
    /\ r.object_class_id = o.object_class_id
    /\ r.object_name = o.bpy.name
    /\ r.object_id = o.object_id
    /\ r.mask_name = o.id_mask

\* C13: throughout the object loop and at the call of save_annotations the
\* two collections have the same length and their k-th records belong to the
\* same object; as long as a visible object has been met they hold exactly
\* the results of the visible objects, in list order, and none of an
\* invisible one.
C13_CollectionsAligned ==
    pc \in {"loop", "save", "done", "raised"} =>
        /\ Len(results_gl) = Len(results_cv)
        /\ \A k \in 1..Len(results_gl) :
              /\ results_gl[k].object_class_name = results_cv[k].object_class_name
              /\ results_gl[k].object_class_id = results_cv[k].object_class_id
              /\ results_gl[k].object_name = results_cv[k].object_name
              /\ results_gl[k].object_id = results_cv[k].object_id
              /\ results_gl[k].mask_name = results_cv[k].mask_name
        /\ LET n == IF pc = "raised" THEN i - 2 ELSE i - 1
               vis == IF n >= 1 THEN VisibleUpTo(n) ELSE << >>
           IN  (pc \in {"loop", "save", "done"} /\ i >= 1 /\ Len(vis) > 0) =>
                  /\ Len(results_gl) = Len(vis)
                  /\ \A k \in 1..Len(vis) :
                        /\ SameObject(results_gl[k], vis[k])
                        /\ SameObject(results_cv[k], vis[k])
                        /\ results_gl[k].visible /\ results_cv[k].visible

C13_Witness ==
    /\ pc = "save"
    /\ Len(objs) = 2
    /\ objs0[1].visible /\ ~objs[1].visible
    /\ objs[2].visible
    /\ Len(results_gl) = 1
    /\ results_gl[1].object_id = objs[2].object_id

(***************************************************************************)
(* generate_dataset (scripts/render_tool_cap.py).  Strings of digits are   *)
(* sequences of digits.  pc: "gen_start", then per frame                   *)
(* "set_base_filename" -> "set_environment_texture" -> "randomize" ->      *)
(* "render" -> "postprocess", and "gen_done" or "gen_raised" at the end.   *)
(***************************************************************************)
MaxImages == 11     \* largest image_count
MaxTextures == 2    \* largest pool of environment textures

RECURSIVE Pow10(_)
Pow10(w) == IF w = 0 THEN 1 ELSE 10 * Pow10(w - 1)

\* int(ceil(log(n, 10))) for n >= 1
CeilLog10(n) == CHOOSE w \in 0..n : Pow10(w) >= n /\ \A v \in 0..(w - 1) : Pow10(v) < n

RECURSIVE Digits(_)
Digits(n) == IF n < 10 THEN <<n>> ELSE Append(Digits(n \div 10), n % 10)

\* "{:0{width}d}".format(n, width=width): zero-padded to at least width digits
FormatInt(n, width) ==
    LET d == Digits(n)
        pad == IF width > Len(d) THEN width - Len(d) ELSE 0
    IN  [k \in 1..(pad + Len(d)) |-> IF k <= pad THEN 0 ELSE d[k - pad]]

GenIdle ==
    UNCHANGED <<cfg, unit_conversion, camera, objs, objs0, dirs, dirs0, files, maskfiles,
                results_gl, results_cv, render_result, bb_obj, bb_ret>>

\* lines 113-133: image_count, textures, format_width, the scene
GenSetup ==
    /\ pc = "gen_start"
    /\ IF gen.image_count <= 0
       THEN /\ pc' = "gen_raised"          \* math.log(0, 10): math domain error
            /\ err' = "ValueError"
            /\ UNCHANGED <<gen, i, trace>>
       ELSE /\ gen' = [gen EXCEPT
                          !.format_width = CeilLog10(gen.image_count),
                          !.base_filename = FormatInt(0, CeilLog10(gen.image_count))]
            /\ i' = 0
            /\ pc' = "set_base_filename"
            /\ UNCHANGED <<err, trace>>
    /\ GenIdle

\* lines 137-139
SetBaseFilename ==
    /\ pc = "set_base_filename"
    /\ gen' = [gen EXCEPT !.base_filename = FormatInt(i, gen.format_width)]
    /\ trace' = Append(trace, <<"set_base_filename", i>>)
    /\ pc' = "set_environment_texture"
    /\ UNCHANGED <<err, i>>
    /\ GenIdle

\* lines 141-143: random.choice raises IndexError on an empty pool
SetEnvironmentTexture ==
    /\ pc = "set_environment_texture"
    /\ IF Len(gen.environment_textures) = 0
       THEN /\ pc' = "gen_raised"
            /\ err' = "IndexError"
            /\ UNCHANGED <<gen, trace>>
       ELSE /\ \E k \in 1..Len(gen.environment_textures) :
                  gen' = [gen EXCEPT !.filepath = gen.environment_textures[k]]
            /\ trace' = Append(trace, <<"set_environment_texture", i>>)
            /\ pc' = "randomize"
            /\ err' = err
    /\ UNCHANGED i
    /\ GenIdle

\* line 146
Randomize ==
    /\ pc = "randomize"
    /\ trace' = Append(trace, <<"randomize", i>>)
    /\ pc' = "render"
    /\ UNCHANGED <<err, i, gen>>
    /\ GenIdle

\* line 147
Render ==
    /\ pc = "render"
    /\ trace' = Append(trace, <<"render", i>>)
    /\ pc' = "postprocess"
    /\ UNCHANGED <<err, i, gen>>
    /\ GenIdle

\* the next value of the loop variable of line 136, or the end of the loop
loop_next(k) == k + 1

\* line 148, and the step of the loop of line 136: the frame's files are
\* written under the base filename
ScenePostprocess ==
    /\ pc = "postprocess"
    /\ trace' = Append(trace, <<"postprocess", i>>)
    /\ gen' = [gen EXCEPT !.written = Append(@, gen.base_filename)]
    /\ i' = loop_next(i)
    /\ pc' = IF Len(gen.written) + 1 < gen.image_count THEN "set_base_filename" ELSE "gen_done"
    /\ err' = err
    /\ GenIdle

NextGen ==
    \/ GenSetup
    \/ SetBaseFilename
    \/ SetEnvironmentTexture
    \/ Randomize
    \/ Render
    \/ ScenePostprocess

TextureNames == {"sky.hdr", "studio.hdr"}
TexturePools == UNION {[1..m -> TextureNames] : m \in 0..MaxTextures}

InitGen ==
    /\ pc = "gen_start"
    /\ err = "none"
    /\ cfg = [compute_disparity |-> FALSE, parallel_cameras |-> << >>,
              visibility_from_mask |-> FALSE]
    /\ unit_conversion = "bu_to_mm"
    /\ camera = TheCamera
    /\ objs = << >>
    /\ objs0 = << >>
    /\ maskfiles = << >>
    /\ dirs = AllDirs
    /\ dirs0 = AllDirs
    /\ files = << >>
    /\ i = 0
    /\ results_gl = << >>
    /\ results_cv = << >>
    /\ render_result = << >>
    /\ trace = << >>
    /\ bb_obj = NoBBoxObj
    /\ bb_ret = NoBBoxRet
    /\ \E n \in 0..MaxImages, pool \in TexturePools :
          gen = [NoGen EXCEPT !.image_count = n, !.environment_textures = pool]

SpecGen == InitGen /\ [][NextGen]_vars

FrameCalls == <<"set_base_filename", "set_environment_texture", "randomize", "render",
                "postprocess">>

\* C14: for every image_count >= 0 generate_dataset runs to its end having
\* processed the frames 0..image_count-1 in increasing order, each frame by
\* set_base_filename, set_environment_texture, randomize, render, postprocess
\* in that order and one frame after the other, under base filenames that
\* differ from frame to frame.
C14_FramesInOrder ==
    /\ pc # "gen_raised"
    /\ \A k \in 1..Len(trace) :
          trace[k] = <<FrameCalls[((k - 1) % 5) + 1], (k - 1) \div 5>>
    /\ pc = "gen_done" =>
          /\ Len(trace) = 5 * gen.image_count
          /\ Len(gen.written) = gen.image_count
    /\ \A a, b \in 1..Len(gen.written) : a # b => gen.written[a] # gen.written[b]

====
